---- MODULE Spec2Model ----
(***************************************************************************)
(* Model of the purchase-order aggregation engine of count_po              *)
(* (src/transaction_utils.py).  A dataset is the first sheet of the        *)
(* uploaded workbook: a set of column names and a sequence of rows.  Every *)
(* aggregator re-reads the sheet, filters it and returns a value or        *)
(* raises; the model keeps the dataset, the vendor argument and the        *)
(* outcome of the last call.  tie_order is the one thing the installation  *)
(* decides: the order in which its sort leaves rows of equal value.  pos   *)
(* is the position of the uploaded file's stream, and page is what one     *)
(* render of the dashboard (src/app.py, main) has computed and shown.      *)
(*                                                                         *)
(* Amounts are fixed-point numbers: the integer n stands for n / Scale, so *)
(* that amounts strictly between two consecutive integers exist.           *)
(***************************************************************************)
EXTENDS Integers, Sequences, FiniteSets, TLC

VARIABLES cols, rows, vendor, ret, tie_order, pos, page

vars == <<cols, rows, vendor, ret, tie_order, pos, page>>

\* ------------------------------------------------------------------ bounds
MaxRows == 2
Scale == 2

\* ------------------------------------------------------- column names
total_column == "jumlah"
vendor_column == "vendor_name"
status_column == "po_status_approval"
po_code_column == "po_code"

AllColumns == {total_column, vendor_column, status_column, po_code_column}

\* ------------------------------------------------------------ cell values
\* A missing text cell (pandas NaN in an object column).
NaN == "<NaN>"
\* The field of a row for a column the sheet does not have.
NoCol == "<no column>"
\* vendor=None of the Python signature.
None == "<None>"

\* Cells of the jumlah column: a number, a text, or an empty cell.
Num(n) == [t |-> "num", n |-> n, s |-> <<>>]
Text(s) == [t |-> "text", n |-> 0, s |-> s]
NaNCell == [t |-> "nan", n |-> 0, s |-> <<>>]
NoColCell == [t |-> "nocol", n |-> 0, s |-> <<>>]

Digits == <<"0", "1", "2", "3", "4", "5", "6", "7", "8", "9">>

IsDigit(c) == \E i \in 1..10 : Digits[i] = c

DigitVal(c) == (CHOOSE i \in 1..10 : Digits[i] = c) - 1

RECURSIVE ParseDigits(_, _)
ParseDigits(s, acc) ==
    IF s = <<>> THEN acc
    ELSE ParseDigits(Tail(s), acc * 10 + DigitVal(Head(s)))

\* pd.to_numeric(..., errors='coerce') on one cell: numbers pass, a text of
\* decimal digits is parsed, everything else becomes NaN.
to_numeric(cell) ==
    IF cell.t = "num" THEN cell
    ELSE IF cell.t = "text" /\ cell.s # <<>> /\ \A i \in 1..Len(cell.s) : IsDigit(cell.s[i])
         THEN Num(ParseDigits(cell.s, 0) * Scale)
         ELSE NaNCell

\* ------------------------------------------------------------ row filter
Coerce(rs) == [i \in 1..Len(rs) |-> [rs[i] EXCEPT !.jumlah = to_numeric(rs[i].jumlah)]]

IsNumeric(r) == r.jumlah.t = "num"

HasPoCode(r) == r.po_code # NaN

\* The status test ignoring letter case.
IsApproved_IgnoreCase(r) == r.po_status_approval \in {"Approved", "approved"}

IsApproved(r) == r.po_status_approval = "Approved"

\* "if vendor is not None" in place of "if vendor".
Truthy_NotNone(v) == v # None

\* "if vendor:" is false for None and for the empty string.
Truthy(v) == v # None /\ v # ""

\* The vendor test left out: every row matches.
MatchesVendor_Any(r, v) == TRUE

MatchesVendor(r, v) == r.vendor_name = v

DropNaJumlah(rs) == SelectSeq(rs, IsNumeric)

DropNaJumlahPo(rs) == SelectSeq(rs, LAMBDA r : IsNumeric(r) /\ HasPoCode(r))

\* The status filter left out.
StatusFilter_Off(cs, rs) == rs

StatusFilter(cs, rs) ==
    IF status_column \in cs THEN SelectSeq(rs, IsApproved) ELSE rs

VendorFilter(rs, v) == SelectSeq(rs, LAMBDA r : MatchesVendor(r, v))

\* first() in place of sum(): the amount of the first row.
SumJumlah_First(rs) == IF rs = <<>> THEN 0 ELSE Head(rs).jumlah.n

RECURSIVE SumJumlah(_)
SumJumlah(rs) ==
    IF rs = <<>> THEN 0 ELSE Head(rs).jumlah.n + SumJumlah(Tail(rs))

\* ------------------------------------------------------------------ bins
ranges == <<
    <<0, 100000>>,
    <<100001, 500000>>,
    <<500001, 1000000>>,
    <<1000001, 5000000>>,
    <<5000001, 10000000>>,
    <<10000001, 50000000>> >>

Above == 50000000

NumBins == 7

\* The interval test with the upper end excluded.
InRange_UpperExclusive(n, i) == n >= ranges[i][1] * Scale /\ n < ranges[i][2] * Scale

\* One of the six closed-interval predicates (x >= min_val) & (x <= max_val).
InRange(n, i) == n >= ranges[i][1] * Scale /\ n <= ranges[i][2] * Scale

\* The last test as an else branch of the first six for amounts below 0.
InAbove_OrNegative(n) == n > Above * Scale \/ n < 0

InAbove(n) == n > Above * Scale

\* The predicate of bin b (0..6) as the aggregators evaluate it.
InBin(n, b) == IF b < 6 THEN InRange(n, b + 1) ELSE InAbove(n)

\* counts: six range counts followed by count_above_50M.
BinCounts(ns) ==
    [b \in 1..NumBins |-> Len(SelectSeq(ns, LAMBDA n : InBin(n, b - 1)))]

Amounts(rs) == [i \in 1..Len(rs) |-> rs[i].jumlah.n]

\* ------------------------------------------------------------- outcomes
Returned(fn, v) == [fn |-> fn, exc |-> "none", val |-> v]

\* An exception; its message names a column (or the vendor) and lists no
\* column.
Raised(fn, e, why, col) ==
    [fn |-> fn, exc |-> e, val |-> [why |-> why, column |-> col, available |-> {}]]

\* The message of count_transactions without its list of columns, as the
\* PO-level functions word it.
RaisedListing_NoList(fn, e, why, col, cs) == Raised(fn, e, why, col)

\* Lines 42, 44: the message also lists ', '.join(df.columns).
RaisedListing(fn, e, why, col, cs) ==
    [fn |-> fn, exc |-> e, val |-> [why |-> why, column |-> col, available |-> cs]]

NotCalled == [fn |-> "none", exc |-> "none", val |-> <<>>]

\* ------------------------------------------------------ count_transactions
\* The emptiness check left out, as in the PO-level functions.
EmptyVendorResult_Never(v, df) == FALSE

\* The emptiness check moved out of "if vendor:".
EmptyVendorResult_Always(v, df) == df = <<>>

\* Lines 55-58: inside "if vendor:", "if df.empty: raise".
EmptyVendorResult(v, df) == Truthy(v) /\ df = <<>>

\* The validation with the po_code test of the PO-level functions added.
MissingTx_WithPoCode(cs) ==
    IF total_column \notin cs THEN total_column
    ELSE IF vendor_column \notin cs THEN vendor_column
    ELSE IF po_code_column \notin cs THEN po_code_column
    ELSE ""

\* Lines 41-44: the first required column the sheet lacks, "" if none.
MissingTx(cs) ==
    IF total_column \notin cs THEN total_column
    ELSE IF vendor_column \notin cs THEN vendor_column
    ELSE ""

\* The vendor filter taken from the frame as read, before the cleaning and
\* the status filter, when a vendor is given.
count_transactions_VendorOnRaw(cs, rs, v) ==
    IF MissingTx(cs) # ""
    THEN RaisedListing("count_transactions", "ValueError", "missing column", MissingTx(cs), cs)
    ELSE LET df == IF Truthy(v) THEN VendorFilter(Coerce(rs), v)
                   ELSE StatusFilter(cs, DropNaJumlah(Coerce(rs)))
         IN IF EmptyVendorResult(v, df)
            THEN Raised("count_transactions", "ValueError", "empty vendor", v)
            ELSE Returned("count_transactions",
                          [total_transactions |-> Len(df),
                           total_amount |-> SumJumlah(df),
                           counts |-> BinCounts(Amounts(df))])

count_transactions(cs, rs, v) ==
    IF MissingTx(cs) # ""
    THEN RaisedListing("count_transactions", "ValueError", "missing column", MissingTx(cs), cs)
    ELSE LET df1 == StatusFilter(cs, DropNaJumlah(Coerce(rs)))
             df == IF Truthy(v) THEN VendorFilter(df1, v) ELSE df1
         IN IF EmptyVendorResult(v, df)
            THEN Raised("count_transactions", "ValueError", "empty vendor", v)
            ELSE Returned("count_transactions",
                          [total_transactions |-> Len(df),
                           total_amount |-> SumJumlah(df),
                           counts |-> BinCounts(Amounts(df))])

\* ------------------------------------------------ count_unique_po_by_range
\* Keys of a groupby come out sorted; the model's po_code texts in that order.
PoCodeSorted == <<"PO1", "PO2">>

\* drop_duplicates on po_code before the grouping: the first row of the code.
RowsOfCode_Dedup(df, code) ==
    LET g == SelectSeq(df, LAMBDA r : r.po_code = code)
    IN IF g = <<>> THEN <<>> ELSE <<Head(g)>>

RowsOfCode(df, code) == SelectSeq(df, LAMBDA r : r.po_code = code)

\* A groupby that also yields the keys no row has (observed=False on a
\* categorical key).
RECURSIVE GroupFrom_Unobserved(_, _)
GroupFrom_Unobserved(df, k) ==
    IF k > Len(PoCodeSorted) THEN <<>>
    ELSE LET g == RowsOfCode(df, PoCodeSorted[k])
         IN << [po_code |-> PoCodeSorted[k], total |-> SumJumlah(g), count |-> Len(g)] >>
            \o GroupFrom_Unobserved(df, k + 1)

\* df.groupby(po_code)[jumlah] with sum (and count): one entry per key that
\* occurs in df, in sorted key order.
RECURSIVE GroupFrom(_, _)
GroupFrom(df, k) ==
    IF k > Len(PoCodeSorted) THEN <<>>
    ELSE LET g == RowsOfCode(df, PoCodeSorted[k])
         IN (IF g = <<>> THEN <<>>
             ELSE << [po_code |-> PoCodeSorted[k],
                      total |-> SumJumlah(g),
                      count |-> Len(g)] >>)
            \o GroupFrom(df, k + 1)

GroupByPoCode(df) == GroupFrom(df, 1)

Totals(groups) == [i \in 1..Len(groups) |-> groups[i].total]

\* The PO-level filter without the status filter.
PoFilter_NoStatus(cs, rs, v) ==
    LET df1 == DropNaJumlahPo(Coerce(rs))
    IN IF Truthy(v) THEN VendorFilter(df1, v) ELSE df1

\* Lines 116-126, 182-192: the cleaning and filtering the two PO functions share.
PoFilter(cs, rs, v) ==
    LET df1 == StatusFilter(cs, DropNaJumlahPo(Coerce(rs)))
    IN IF Truthy(v) THEN VendorFilter(df1, v) ELSE df1

count_unique_po_by_range(cs, rs, v) ==
    IF total_column \notin cs
    THEN Raised("count_unique_po_by_range", "ValueError", "missing column", total_column)
    ELSE IF po_code_column \notin cs
    THEN Raised("count_unique_po_by_range", "ValueError", "missing column", po_code_column)
    ELSE IF Truthy(v) /\ vendor_column \notin cs
    THEN Raised("count_unique_po_by_range", "KeyError", "missing column", vendor_column)
    ELSE LET df_po == GroupByPoCode(PoFilter(cs, rs, v))
         IN Returned("count_unique_po_by_range",
                     [total_unique_po |-> Len(df_po),
                      counts |-> BinCounts(Totals(df_po))])

\* --------------------------------------------------------- get_po_breakdown
ranges_labels == <<
    "0 - 100 Ribu",
    "100 Ribu - 500 Ribu",
    "500 Ribu - 1 Juta",
    "1 Juta - 5 Juta",
    "5 Juta - 10 Juta",
    "10 Juta - 50 Juta",
    "Di atas 50 Juta" >>

get_range(value) ==
    IF value <= 100000 * Scale THEN "0 - 100 Ribu"
    ELSE IF value <= 500000 * Scale THEN "100 Ribu - 500 Ribu"
    ELSE IF value <= 1000000 * Scale THEN "500 Ribu - 1 Juta"
    ELSE IF value <= 5000000 * Scale THEN "1 Juta - 5 Juta"
    ELSE IF value <= 10000000 * Scale THEN "5 Juta - 10 Juta"
    ELSE IF value <= 50000000 * Scale THEN "10 Juta - 50 Juta"
    ELSE "Di atas 50 Juta"

\* Position of a po_code in the grouped frame.
KeyPos(code) == CHOOSE k \in 1..Len(PoCodeSorted) : PoCodeSorted[k] = code

\* Descending obtained by sorting ascending and reversing, which turns the
\* order of equal values around.
TieBefore_Reversed(a, b) == tie_order[KeyPos(a.po_code)] > tie_order[KeyPos(b.po_code)]

\* sort_values uses kind='quicksort', which does not promise to keep equal
\* values in their order: tie_order[k] is the rank this installation's sort
\* gives the k-th group among groups of equal value (the identity for a sort
\* that happens to be stable).
TieBefore(a, b) == tie_order[KeyPos(a.po_code)] < tie_order[KeyPos(b.po_code)]

\* sort_values('Total Nilai', ascending=False): descending; equal values in
\* the installation's tie order.
RECURSIVE InsertDesc(_, _)
InsertDesc(sorted, e) ==
    IF sorted = <<>> THEN <<e>>
    ELSE IF \/ Head(sorted).total > e.total
            \/ (Head(sorted).total = e.total /\ TieBefore(Head(sorted), e))
         THEN <<Head(sorted)>> \o InsertDesc(Tail(sorted), e)
         ELSE <<e>> \o sorted

\* The sort left out: the grouped frame as it is.
SortDesc_Unsorted(s) == s

RECURSIVE SortDesc(_)
SortDesc(s) ==
    IF s = <<>> THEN <<>>
    ELSE InsertDesc(SortDesc(SubSeq(s, 1, Len(s) - 1)), s[Len(s)])

\* Line 199 with the two column names in the other order.
BreakdownRow_Swapped(g) ==
    [po_code |-> g.po_code,
     transaction_count |-> g.total,
     total |-> g.count,
     label |-> get_range(g.count)]

BreakdownRow(g) ==
    [po_code |-> g.po_code,
     transaction_count |-> g.count,
     total |-> g.total,
     label |-> get_range(g.total)]

get_po_breakdown(cs, rs, v) ==
    IF total_column \notin cs
    THEN Raised("get_po_breakdown", "ValueError", "missing column", total_column)
    ELSE IF po_code_column \notin cs
    THEN Raised("get_po_breakdown", "ValueError", "missing column", po_code_column)
    ELSE IF Truthy(v) /\ vendor_column \notin cs
    THEN Raised("get_po_breakdown", "KeyError", "missing column", vendor_column)
    ELSE LET po_summary == GroupByPoCode(PoFilter(cs, rs, v))
             labelled == [i \in 1..Len(po_summary) |-> BreakdownRow(po_summary[i])]
         IN Returned("get_po_breakdown", SortDesc(labelled))

\* ------------------------------------------------------------- percentages
\* A percentage is kept in hundredths (1234 stands for 12.34), or is the
\* floating-point NaN / infinity that a division by zero produces.
Pct(n) == [t |-> "num", n |-> n]
PctNaN == [t |-> "nan", n |-> 0]
PctInf == [t |-> "inf", n |-> 0]

\* round(x, 2) of x = count / total * 100, total > 0, ties to even.
Round2(count, total) ==
    LET q == (count * 10000) \div total
        r == (count * 10000) % total
    IN IF 2 * r > total \/ (2 * r = total /\ q % 2 = 1) THEN q + 1 ELSE q

\* (Series / total * 100).round(2) on one element.
SeriesPct(count, total) ==
    IF total = 0 THEN (IF count = 0 THEN PctNaN ELSE PctInf)
    ELSE Pct(Round2(count, total))

StatsTable(counts, percents) ==
    [i \in 1..NumBins |-> [label |-> ranges_labels[i],
                           count |-> counts[i],
                           percent |-> percents[i]]]

\* ------------------------------------------------- get_unique_po_statistics
get_unique_po_statistics(cs, rs, v) ==
    LET c == count_unique_po_by_range(cs, rs, v)
    IN IF c.exc # "none" THEN [c EXCEPT !.fn = "get_unique_po_statistics"]
       ELSE LET total == c.val.total_unique_po
            IN Returned("get_unique_po_statistics",
                        StatsTable(c.val.counts,
                                   [i \in 1..NumBins |->
                                       IF total > 0 THEN SeriesPct(c.val.counts[i], total)
                                       ELSE Pct(0)]))

\* ------------------------------------------------ get_transaction_dataframe
\* The frame without the dropna of line 283: rows whose jumlah is not a
\* number stay.
get_transaction_dataframe_NoDropna(cs, rs, v) ==
    IF total_column \notin cs
    THEN Raised("get_transaction_dataframe", "KeyError", "missing column", total_column)
    ELSE IF Truthy(v) /\ vendor_column \notin cs
    THEN Raised("get_transaction_dataframe", "KeyError", "missing column", vendor_column)
    ELSE LET df1 == StatusFilter(cs, Coerce(rs))
         IN Returned("get_transaction_dataframe",
                     IF Truthy(v) THEN VendorFilter(df1, v) ELSE df1)

get_transaction_dataframe(cs, rs, v) ==
    IF total_column \notin cs
    THEN Raised("get_transaction_dataframe", "KeyError", "missing column", total_column)
    ELSE IF Truthy(v) /\ vendor_column \notin cs
    THEN Raised("get_transaction_dataframe", "KeyError", "missing column", vendor_column)
    ELSE LET df1 == StatusFilter(cs, DropNaJumlah(Coerce(rs)))
         IN Returned("get_transaction_dataframe",
                     IF Truthy(v) THEN VendorFilter(df1, v) ELSE df1)

\* ----------------------------------------------------- get_range_statistics
get_range_statistics(cs, rs, v) ==
    LET c == count_transactions(cs, rs, v)
    IN IF c.exc # "none" THEN [c EXCEPT !.fn = "get_range_statistics"]
       ELSE LET total == c.val.total_transactions
            IN Returned("get_range_statistics",
                        StatsTable(c.val.counts,
                                   [i \in 1..NumBins |-> SeriesPct(c.val.counts[i], total)]))

\* ------------------------------------------------------------ the upload
\* The load without the rewind: a stream that was read before is at its end
\* and yields no row.
ReadExcel_NoRewind(p, rs) == IF p = "start" THEN rs ELSE <<>>

\* pd.ExcelFile(file) loads the workbook to list its sheets and leaves the
\* stream at its end.
ExcelFile(p) == "end"

\* pd.read_excel(file, sheet_name=...) on the uploaded stream at position
\* p: pandas rewinds the handle before it loads the workbook, so the rows
\* read are those of the sheet wherever an earlier read left the stream.
ReadExcel(p, rs) == rs

\* A variable of main that is not bound yet, one bound to None, one bound to
\* a value.
Unset == [some |-> "unset", v |-> <<>>]
NoneObj == [some |-> "none", v |-> <<>>]
Some(v) == [some |-> "yes", v |-> v]

\* The page before a render: nothing called, nothing shown, no report.
NoPage ==
    [pc |-> "upload", calls |-> <<>>, shown |-> {}, reports |-> <<>>,
     counts |-> Unset, stats_df |-> Unset,
     po_counts |-> Unset, po_stats_df |-> Unset, po_breakdown_df |-> Unset,
     df_filtered |-> Unset, df_display |-> Unset]

\* ----------------------------------------------------------------- state
\* The sheets the model draws from.  A sheet lacks at most one column; a row
\* has the field NoCol / NoColCell for a column the sheet lacks.
ColumnSets == {AllColumns} \cup {AllColumns \ {c} : c \in AllColumns}

VendorCells == {"X", "Y"}
StatusCells == {"Approved", "approved", NaN}
PoCodeCells == {"PO1", NaN}
JumlahCells == {Num(50000 * Scale), Text(<<"a">>)}
VendorArgs == {None, "", "X"}

\* Amounts around the bin boundaries: integers, an amount strictly between
\* 100000 and 100001, a negative amount, a numeric text and a non-numeric one.
BoundaryCells ==
    {Num(1 * Scale), Num(100000 * Scale), Num(100001 * Scale),
     Num(50000000 * Scale), Num(50000001 * Scale),
     Num(100000 * Scale + 1), Num(0 - 1 * Scale),
     Text(<<"7">>), Text(<<"7", "a">>)}
BinColumns == {total_column, vendor_column, po_code_column}
BinPoCodeCells == {"PO1", "PO2"}
BinVendorCells == {"X"}
BinVendorArgs == {None, "X"}

\* Sheets that exercise the grouping: two purchase orders, two vendors, two
\* statuses, amounts whose sums cross a bin boundary (60000 + 50000).
PoVendorCells == {"X", "Y"}
PoStatusCells == {"Approved", "Not Yet Approved"}
PoPoCodeCells == {"PO1", "PO2"}
PoJumlahCells == {Num(50000 * Scale), Num(60000 * Scale), Num(200000 * Scale)}
PoVendorArgs == {None, "X"}

\* The tie orders an installation may have, and that of a stable sort.
TieOrders ==
    {f \in [1..Len(PoCodeSorted) -> 1..Len(PoCodeSorted)] :
        \A j, k \in 1..Len(PoCodeSorted) : j # k => f[j] # f[k]}
StableOrder == [k \in 1..Len(PoCodeSorted) |-> k]

Cell(cs, c, dom, absent) == IF c \in cs THEN dom ELSE {absent}

RowsOf(cs, V, J, S, P) ==
    [vendor_name : Cell(cs, vendor_column, V, NoCol),
     jumlah : Cell(cs, total_column, J, NoColCell),
     po_status_approval : Cell(cs, status_column, S, NoCol),
     po_code : Cell(cs, po_code_column, P, NoCol)]

SeqsUpTo(S, n) == UNION {[1..k -> S] : k \in 0..n}

\* Datasets that exercise the row filter: every column may be missing, every
\* status and vendor occurs.  With a single po_code no two groups tie.
Init ==
    /\ cols \in ColumnSets
    /\ rows \in SeqsUpTo(RowsOf(cols, VendorCells, JumlahCells, StatusCells, PoCodeCells), MaxRows)
    /\ vendor \in VendorArgs
    /\ ret = NotCalled
    /\ tie_order = StableOrder
    /\ pos = "start"
    /\ page = NoPage

\* Datasets that exercise the bins: amounts at and between the boundaries,
\* two purchase orders.
InitBins ==
    /\ cols = BinColumns
    /\ rows \in SeqsUpTo(RowsOf(cols, BinVendorCells, BoundaryCells, {NoCol}, BinPoCodeCells), MaxRows)
    /\ vendor \in BinVendorArgs
    /\ ret = NotCalled
    /\ tie_order \in TieOrders
    /\ pos = "start"
    /\ page = NoPage

InitPo ==
    /\ cols = AllColumns
    /\ rows \in SeqsUpTo(RowsOf(cols, PoVendorCells, PoJumlahCells, PoStatusCells, PoPoCodeCells), MaxRows)
    /\ vendor \in PoVendorArgs
    /\ ret = NotCalled
    /\ tie_order \in TieOrders
    /\ pos = "start"
    /\ page = NoPage

CallCountTransactions ==
    /\ ret' = count_transactions(cols, ReadExcel(ExcelFile(pos), rows), vendor)
    /\ pos' = "end"
    /\ UNCHANGED <<cols, rows, vendor, tie_order, page>>

CallCountUniquePoByRange ==
    /\ ret' = count_unique_po_by_range(cols, ReadExcel(ExcelFile(pos), rows), vendor)
    /\ pos' = "end"
    /\ UNCHANGED <<cols, rows, vendor, tie_order, page>>

CallGetPoBreakdown ==
    /\ ret' = get_po_breakdown(cols, ReadExcel(ExcelFile(pos), rows), vendor)
    /\ pos' = "end"
    /\ UNCHANGED <<cols, rows, vendor, tie_order, page>>

CallGetUniquePoStatistics ==
    /\ ret' = get_unique_po_statistics(cols, ReadExcel(ExcelFile(pos), rows), vendor)
    /\ pos' = "end"
    /\ UNCHANGED <<cols, rows, vendor, tie_order, page>>

CallGetTransactionDataframe ==
    /\ ret' = get_transaction_dataframe(cols, ReadExcel(ExcelFile(pos), rows), vendor)
    /\ pos' = "end"
    /\ UNCHANGED <<cols, rows, vendor, tie_order, page>>

CallGetRangeStatistics ==
    /\ ret' = get_range_statistics(cols, ReadExcel(ExcelFile(pos), rows), vendor)
    /\ pos' = "end"
    /\ UNCHANGED <<cols, rows, vendor, tie_order, page>>

Next ==
    \/ CallCountTransactions
    \/ CallCountUniquePoByRange
    \/ CallGetPoBreakdown
    \/ CallGetUniquePoStatistics
    \/ CallGetTransactionDataframe
    \/ CallGetRangeStatistics

Spec == Init /\ [][Next]_vars

SpecBins == InitBins /\ [][Next]_vars

SpecPo == InitPo /\ [][Next]_vars

\* ------------------------------------------------------------ the reports
\* A statistics sheet of a report: the rows of the table and, below them,
\* the TOTAL row, which is written from the total and the constant 100%.
StatSheet(table, total) ==
    [rows |-> table,
     total |-> [label |-> "TOTAL", count |-> total, percent |-> Pct(10000)]]

\* Series.sum() of a column.
RECURSIVE SumSeq(_)
SumSeq(s) == IF s = <<>> THEN 0 ELSE Head(s) + SumSeq(Tail(s))

BreakdownSheet(table) ==
    [rows |-> table,
     total |-> [transaction_count |-> SumSeq([k \in 1..Len(table) |-> table[k].transaction_count]),
                total |-> SumSeq([k \in 1..Len(table) |-> table[k].total])]]

\* worksheet.write of a NaN raises: xlsxwriter refuses NaN unless the
\* workbook is opened with nan_inf_to_errors.  NaN is written for a
\* percentage of a table whose total is 0 and for the largest jumlah of an
\* empty frame.
WritesNaN(stats_df, df_raw) ==
    \/ \E b \in 1..NumBins : stats_df[b].percent.t # "num"
    \/ df_raw.some = "yes" /\ df_raw.v = <<>>

create_excel_simple(stats_df, counts, df_raw, po_stats_df, po_counts, po_breakdown_df) ==
    IF WritesNaN(stats_df, df_raw)
    THEN [kind |-> "excel", exc |-> "TypeError",
          detail |-> NoneObj, po |-> NoneObj, breakdown |-> NoneObj, raw |-> NoneObj]
    ELSE [kind |-> "excel", exc |-> "none",
          detail |-> Some(StatSheet(stats_df, counts.total_transactions)),
          po |-> IF po_stats_df.some = "yes" /\ po_counts.some = "yes"
                 THEN Some(StatSheet(po_stats_df.v, po_counts.v.total_unique_po))
                 ELSE NoneObj,
          breakdown |-> IF po_breakdown_df.some = "yes" /\ po_breakdown_df.v # <<>>
                        THEN Some(BreakdownSheet(po_breakdown_df.v))
                        ELSE NoneObj,
          raw |-> IF df_raw.some = "yes" /\ df_raw.v # <<>> THEN df_raw ELSE NoneObj]

\* The PDF prints its numbers as text ("nan%" for a NaN) and has the
\* transaction statistics only.
create_pdf_report(stats_df, counts, df_raw) ==
    [kind |-> "pdf", exc |-> "none",
     detail |-> Some(StatSheet(stats_df, counts.total_transactions)),
     po |-> NoneObj, breakdown |-> NoneObj, raw |-> NoneObj]

\* ----------------------------------------------------------- the dashboard
\* One render of main(): the statements in program order, one step per call
\* of the engine or per tab.
Log(p, fn) == [p EXCEPT !.calls = Append(@, fn)]

\* The handler of the PO block that lets the error go on to the outer
\* handler.
PoUnavailable_Reraise(p) == [p EXCEPT !.pc = "failed", !.shown = @ \cup {"error"}]

\* Lines 102-106: the PO results are set to None together, a warning is shown.
PoUnavailable(p) ==
    [p EXCEPT !.po_counts = NoneObj, !.po_stats_df = NoneObj, !.po_breakdown_df = NoneObj,
              !.shown = @ \cup {"po_warning"}, !.pc = "metrics"]

\* The outer handler with the error swallowed: the render goes on.
Failed_GoOn(p) == [p EXCEPT !.pc = "po_counts", !.shown = @ \cup {"error"}]

\* Lines 626-628: the outer handler shows the error; the render ends.
Failed(p) == [p EXCEPT !.pc = "failed", !.shown = @ \cup {"error"}]

\* A download is offered for a report that was built; the error is shown for
\* one that was not (lines 233-234, 251-252, ...).
Offer(p, report) ==
    [p EXCEPT !.reports = Append(@, report),
              !.shown = IF report.exc = "none" THEN @ ELSE @ \cup {"export_error"}]

\* The options of the vendor selectbox: "Semua Vendor" (None) and the vendor
\* names of the sheet.
VendorOptions(cs, rs) ==
    {None} \cup (IF vendor_column \in cs
                 THEN {rs[i].vendor_name : i \in 1..Len(rs)} \ {NaN}
                 ELSE {})

\* Lines 53-61: the sheet is read; without vendor_name the render returns.
RenderUpload ==
    /\ page.pc = "upload"
    /\ pos' = "end"
    /\ page' = IF vendor_column \notin cols
               THEN [page EXCEPT !.pc = "returned", !.shown = @ \cup {"error"}]
               ELSE [page EXCEPT !.pc = "count", !.shown = @ \cup {"sidebar"}]
    /\ UNCHANGED <<cols, rows, vendor, ret, tie_order>>

\* Lines 79-82.
RenderCountTransactions ==
    /\ page.pc = "count"
    /\ ret' = count_transactions(cols, ReadExcel(ExcelFile(pos), rows), vendor)
    /\ pos' = "end"
    /\ page' = IF ret'.exc # "none"
               THEN Failed(Log(page, "count_transactions"))
               ELSE [Log(page, "count_transactions") EXCEPT !.counts = Some(ret'.val), !.pc = "stats"]
    /\ UNCHANGED <<cols, rows, vendor, tie_order>>

\* Lines 83-86.
RenderRangeStatistics ==
    /\ page.pc = "stats"
    /\ ret' = get_range_statistics(cols, ReadExcel(ExcelFile(pos), rows), vendor)
    /\ pos' = "end"
    /\ page' = IF ret'.exc # "none"
               THEN Failed(Log(page, "get_range_statistics"))
               ELSE [Log(page, "get_range_statistics") EXCEPT !.stats_df = Some(ret'.val), !.pc = "po_counts"]
    /\ UNCHANGED <<cols, rows, vendor, tie_order>>

\* Lines 89-93.
RenderCountUniquePo ==
    /\ page.pc = "po_counts"
    /\ ret' = count_unique_po_by_range(cols, ReadExcel(ExcelFile(pos), rows), vendor)
    /\ pos' = "end"
    /\ page' = IF ret'.exc # "none"
               THEN PoUnavailable(Log(page, "count_unique_po_by_range"))
               ELSE [Log(page, "count_unique_po_by_range") EXCEPT !.po_counts = Some(ret'.val), !.pc = "po_stats"]
    /\ UNCHANGED <<cols, rows, vendor, tie_order>>

\* Lines 94-97.
RenderUniquePoStatistics ==
    /\ page.pc = "po_stats"
    /\ ret' = get_unique_po_statistics(cols, ReadExcel(ExcelFile(pos), rows), vendor)
    /\ pos' = "end"
    /\ page' = IF ret'.exc # "none"
               THEN PoUnavailable(Log(page, "get_unique_po_statistics"))
               ELSE [Log(page, "get_unique_po_statistics") EXCEPT !.po_stats_df = Some(ret'.val), !.pc = "po_breakdown"]
    /\ UNCHANGED <<cols, rows, vendor, tie_order>>

\* Lines 98-101.
RenderPoBreakdown ==
    /\ page.pc = "po_breakdown"
    /\ ret' = get_po_breakdown(cols, ReadExcel(ExcelFile(pos), rows), vendor)
    /\ pos' = "end"
    /\ page' = IF ret'.exc # "none"
               THEN PoUnavailable(Log(page, "get_po_breakdown"))
               ELSE [Log(page, "get_po_breakdown") EXCEPT !.po_breakdown_df = Some(ret'.val), !.pc = "metrics"]
    /\ UNCHANGED <<cols, rows, vendor, tie_order>>

\* Lines 108-149: the header and the metrics; the fourth metric reads the
\* filtered rows.
RenderMetrics ==
    /\ page.pc = "metrics"
    /\ ret' = get_transaction_dataframe(cols, ReadExcel(ExcelFile(pos), rows), vendor)
    /\ pos' = "end"
    /\ page' = LET p == [Log(page, "get_transaction_dataframe") EXCEPT !.shown = @ \cup {"header", "metrics"}]
               IN IF ret'.exc # "none" THEN Failed(p)
                  ELSE [p EXCEPT !.df_filtered = Some(ret'.val), !.pc = "tab1"]
    /\ UNCHANGED <<cols, rows, vendor, tie_order>>

\* Lines 162-253: the charts and the full workbook, with the PO results.
RenderDistribusi ==
    /\ page.pc = "tab1"
    /\ page' = LET p1 == [page EXCEPT !.shown = @ \cup {"tab_distribusi"}, !.pc = "tab23"]
                   p2 == Offer(p1, create_excel_simple(page.stats_df.v, page.counts.v, page.df_filtered,
                                                       page.po_stats_df, page.po_counts, page.po_breakdown_df))
               IN Offer(p2, create_pdf_report(page.stats_df.v, page.counts.v, page.df_filtered))
    /\ UNCHANGED <<cols, rows, vendor, ret, tie_order, pos>>

\* Lines 254-379: the statistics and detail tabs; their workbook is built
\* without the PO results.
RenderStatistikDetail ==
    /\ page.pc = "tab23"
    /\ page' = LET p1 == [page EXCEPT !.shown = @ \cup {"tab_statistik", "tab_detail"}, !.pc = "tab4"]
                   p2 == Offer(p1, create_excel_simple(page.stats_df.v, page.counts.v, page.df_filtered,
                                                       NoneObj, NoneObj, NoneObj))
               IN Offer(p2, create_pdf_report(page.stats_df.v, page.counts.v, page.df_filtered))
    /\ UNCHANGED <<cols, rows, vendor, ret, tie_order, pos>>

\* Lines 381-516: the PO tab, or the message that stands for it.
RenderPoUnik ==
    /\ page.pc = "tab4"
    /\ page' = IF page.po_counts.some # "yes" \/ page.po_stats_df.some # "yes"
               THEN [page EXCEPT !.shown = @ \cup {"po_error"}, !.pc = "tab5"]
               ELSE [page EXCEPT !.shown = @ \cup {"po_view"}
                                     \cup (IF page.po_breakdown_df.some = "yes" /\ page.po_breakdown_df.v # <<>>
                                           THEN {"po_breakdown_view"} ELSE {}),
                                 !.pc = "tab5"]
    /\ UNCHANGED <<cols, rows, vendor, ret, tie_order, pos>>

\* Lines 518-568: the raw data tab reads the filtered rows again.
RenderDataMentah ==
    /\ page.pc = "tab5"
    /\ ret' = get_transaction_dataframe(cols, ReadExcel(ExcelFile(pos), rows), vendor)
    /\ pos' = "end"
    /\ page' = LET p == Log(page, "get_transaction_dataframe")
               IN IF ret'.exc # "none" THEN Failed(p)
                  ELSE LET p1 == [p EXCEPT !.df_display = Some(ret'.val),
                                           !.shown = @ \cup {"tab_data"}, !.pc = "done"]
                           p2 == Offer(p1, create_excel_simple(page.stats_df.v, page.counts.v, Some(ret'.val),
                                                               NoneObj, NoneObj, NoneObj))
                       IN Offer(p2, create_pdf_report(page.stats_df.v, page.counts.v, Some(ret'.val)))
    /\ UNCHANGED <<cols, rows, vendor, tie_order>>

\* Sheets for the dashboard: any column may be missing, a vendor's rows may
\* all be unapproved, a row may lack its po_code, an amount may lie between
\* two bins.
RenderVendorCells == {"X", "Y"}
RenderStatusCells == {"Approved", "Not Yet Approved"}
RenderPoCodeCells == {"PO1", NaN}
RenderJumlahCells == {Num(50000 * Scale), Num(100000 * Scale + 1)}

InitRender ==
    /\ cols \in ColumnSets
    /\ rows \in SeqsUpTo(RowsOf(cols, RenderVendorCells, RenderJumlahCells,
                                RenderStatusCells, RenderPoCodeCells), MaxRows)
    /\ vendor \in VendorOptions(cols, rows)
    /\ ret = NotCalled
    /\ tie_order = StableOrder
    /\ pos = "start"
    /\ page = NoPage

NextRender ==
    \/ RenderUpload
    \/ RenderCountTransactions
    \/ RenderRangeStatistics
    \/ RenderCountUniquePo
    \/ RenderUniquePoStatistics
    \/ RenderPoBreakdown
    \/ RenderMetrics
    \/ RenderDistribusi
    \/ RenderStatistikDetail
    \/ RenderPoUnik
    \/ RenderDataMentah

SpecRender == InitRender /\ [][NextRender]_vars

\* ======================================================================
\* Properties.  They are stated over the dataset itself (which rows the
\* filter is to keep, which bin an amount belongs to), not over the
\* aggregators' intermediate frames.
\* ======================================================================
Idx == 1..Len(rows)

NumericAt(i) == to_numeric(rows[i].jumlah).t = "num"

AmountAt(i) == to_numeric(rows[i].jumlah).n

StatusOK(i) == status_column \in cols => rows[i].po_status_approval = "Approved"

VendorGiven == vendor # None /\ vendor # ""

VendorOK(i) == VendorGiven => rows[i].vendor_name = vendor

\* Rows a transaction-level aggregation is to keep, and those of them a
\* PO-level aggregation is to keep.
KeptTx == {i \in Idx : NumericAt(i) /\ StatusOK(i) /\ VendorOK(i)}

KeptPo == {i \in KeptTx : rows[i].po_code # NaN}

RECURSIVE SumAt(_)
SumAt(S) ==
    IF S = {} THEN 0
    ELSE LET i == CHOOSE j \in S : TRUE IN AmountAt(i) + SumAt(S \ {i})

Codes == {rows[i].po_code : i \in KeptPo}

RowsOfPo(c) == {i \in KeptPo : rows[i].po_code = c}

GroupTotal(c) == SumAt(RowsOfPo(c))

Ok(fn) == ret.fn = fn /\ ret.exc = "none"

\* C1: whenever count_transactions returns, its seven bin counts sum to
\* total_transactions.
C1_TransactionPartition ==
    Ok("count_transactions") =>
        SumSeq(ret.val.counts) = ret.val.total_transactions

\* C2: whenever count_unique_po_by_range returns, its seven bin counts sum
\* to total_unique_po.
C2_PoPartition ==
    Ok("count_unique_po_by_range") =>
        SumSeq(ret.val.counts) = ret.val.total_unique_po

\* C3: every non-negative amount that an aggregator bins (a kept row's
\* jumlah, a PO group's sum) satisfies exactly one of the seven bin
\* predicates.
C3_BinsPartitionNonNegative ==
    /\ Ok("count_transactions") =>
          \A i \in KeptTx :
              AmountAt(i) >= 0 => Cardinality({b \in 0..6 : InBin(AmountAt(i), b)}) = 1
    /\ Ok("count_unique_po_by_range") =>
          \A c \in Codes :
              GroupTotal(c) >= 0 => Cardinality({b \in 0..6 : InBin(GroupTotal(c), b)}) = 1

\* The four boundary amounts of the claim and the bin each belongs to.
BoundaryBin ==
    [a \in {100000 * Scale, 100001 * Scale, 50000000 * Scale, 50000001 * Scale} |->
        IF a = 100000 * Scale THEN 0
        ELSE IF a = 100001 * Scale THEN 1
        ELSE IF a = 50000000 * Scale THEN 5
        ELSE 6]

\* C4: 100000 is counted in bin 0, 100001 in bin 1, 50000000 in bin 5 and
\* 50000001 in bin 6, as a transaction's jumlah (count_transactions) and as
\* a PO group's sum (count_unique_po_by_range, label of get_po_breakdown):
\* when every binned amount is one of the four, each bin count is the number
\* of amounts that belong to that bin.
C4_BoundaryClassification ==
    /\ (Ok("count_transactions") /\ \A i \in KeptTx : AmountAt(i) \in DOMAIN BoundaryBin) =>
          \A b \in 0..6 :
              ret.val.counts[b + 1] =
                  Cardinality({i \in KeptTx : BoundaryBin[AmountAt(i)] = b})
    /\ (Ok("count_unique_po_by_range") /\ \A c \in Codes : GroupTotal(c) \in DOMAIN BoundaryBin) =>
          \A b \in 0..6 :
              ret.val.counts[b + 1] =
                  Cardinality({c \in Codes : BoundaryBin[GroupTotal(c)] = b})
    /\ Ok("get_po_breakdown") =>
          \A k \in 1..Len(ret.val) :
              ret.val[k].total \in DOMAIN BoundaryBin =>
                  ret.val[k].label = ranges_labels[BoundaryBin[ret.val[k].total] + 1]

\* A PO whose two rows sum to exactly 100001 has been counted in bin 1.
C4_Witness ==
    /\ Ok("count_unique_po_by_range")
    /\ \E c \in Codes : Cardinality(RowsOfPo(c)) = 2 /\ GroupTotal(c) = 100001 * Scale
    /\ ret.val.counts = <<0, 1, 0, 0, 0, 0, 0>>

BreakdownCounts == [k \in 1..Len(ret.val) |-> ret.val[k].transaction_count]

BreakdownTotals == [k \in 1..Len(ret.val) |-> ret.val[k].total]

\* C5: when the po_status_approval column exists a row is aggregated only
\* if its status is exactly "Approved"; when it does not exist no row is
\* dropped for its status.  In every aggregator the number of rows (or of
\* PO codes, or of rows per PO) is that of the rows kept under this rule.
C5_ApprovalFilter ==
    LET approved(i) == rows[i].po_status_approval = "Approved"
        kept == {i \in Idx : /\ NumericAt(i)
                              /\ VendorOK(i)
                              /\ (status_column \in cols => approved(i))}
        keptPo == {i \in kept : rows[i].po_code # NaN}
    IN /\ Ok("count_transactions") => ret.val.total_transactions = Cardinality(kept)
       /\ Ok("get_transaction_dataframe") =>
             /\ Len(ret.val) = Cardinality(kept)
             /\ status_column \in cols =>
                   \A k \in 1..Len(ret.val) : ret.val[k].po_status_approval = "Approved"
       /\ Ok("count_unique_po_by_range") =>
             ret.val.total_unique_po = Cardinality({rows[i].po_code : i \in keptPo})
       /\ Ok("get_po_breakdown") => SumSeq(BreakdownCounts) = Cardinality(keptPo)

\* Of two numeric rows of the requested vendor, count_transactions kept the
\* "Approved" one and dropped the "approved" one.
C5_Witness ==
    /\ Ok("count_transactions")
    /\ Len(rows) = 2
    /\ \A i \in Idx : NumericAt(i) /\ VendorOK(i)
    /\ rows[1].po_status_approval = "approved"
    /\ rows[2].po_status_approval = "Approved"
    /\ ret.val.total_transactions = 1

\* C6: when a vendor is given, an aggregator aggregates exactly the
\* numeric, status-filtered rows whose vendor_name equals it; no row of
\* another vendor adds to a count or a sum.
C6_VendorFilter ==
    LET mine == {i \in Idx : NumericAt(i) /\ StatusOK(i) /\ rows[i].vendor_name = vendor}
        minePo == {i \in mine : rows[i].po_code # NaN}
    IN VendorGiven =>
        /\ Ok("count_transactions") =>
              /\ ret.val.total_transactions = Cardinality(mine)
              /\ ret.val.total_amount = SumAt(mine)
        /\ Ok("get_transaction_dataframe") =>
              /\ Len(ret.val) = Cardinality(mine)
              /\ \A k \in 1..Len(ret.val) : ret.val[k].vendor_name = vendor
        /\ Ok("count_unique_po_by_range") =>
              ret.val.total_unique_po = Cardinality({rows[i].po_code : i \in minePo})
        /\ Ok("get_po_breakdown") =>
              /\ SumSeq(BreakdownCounts) = Cardinality(minePo)
              /\ SumSeq(BreakdownTotals) = SumAt(minePo)

\* count_transactions for vendor "X" returned the amount of the X row alone,
\* although the Y row is numeric and approved too.
C6_Witness ==
    /\ Ok("count_transactions")
    /\ vendor = "X"
    /\ Len(rows) = 2
    /\ \A i \in Idx : NumericAt(i) /\ StatusOK(i)
    /\ rows[1].vendor_name = "Y" /\ rows[2].vendor_name = "X"
    /\ ret.val.total_transactions = 1
    /\ ret.val.total_amount = AmountAt(2)

HasTxColumns == total_column \in cols /\ vendor_column \in cols

\* C7: count_transactions with a vendor filter that leaves no row raises
\* the empty-result error instead of returning counts.
C7_EmptyVendorRaises ==
    (ret.fn = "count_transactions" /\ HasTxColumns /\ VendorGiven /\ KeptTx = {}) =>
        /\ ret.exc = "ValueError"
        /\ ret.val.why = "empty vendor"

\* The vendor exists in the sheet, but only on a row that coercion removes;
\* count_transactions raised.
C7_Witness ==
    /\ ret.fn = "count_transactions"
    /\ ret.exc = "ValueError"
    /\ ret.val.why = "empty vendor"
    /\ \E i \in Idx : rows[i].vendor_name = vendor /\ ~NumericAt(i)

\* C8: count_unique_po_by_range, get_po_breakdown and
\* get_transaction_dataframe raise when a given vendor matches no row.
C8_NoSilentEmpty ==
    (/\ ret.fn \in {"count_unique_po_by_range", "get_po_breakdown", "get_transaction_dataframe"}
     /\ VendorGiven
     /\ KeptTx = {}) => ret.exc # "none"

\* C9: without a vendor filter, a sheet of which no row survives coercion
\* and the status filter makes count_transactions return 0, 0 and seven 0s.
C9_EmptyWithoutVendor ==
    (ret.fn = "count_transactions" /\ HasTxColumns /\ vendor = None /\ KeptTx = {}) =>
        /\ ret.exc = "none"
        /\ ret.val.total_transactions = 0
        /\ ret.val.total_amount = 0
        /\ ret.val.counts = <<0, 0, 0, 0, 0, 0, 0>>

\* One row was removed by coercion, the other by the status filter, and
\* count_transactions returned.
C9_Witness ==
    /\ Ok("count_transactions")
    /\ vendor = None
    /\ Len(rows) = 2
    /\ ~NumericAt(1)
    /\ NumericAt(2) /\ ~StatusOK(2)
    /\ ret.val.total_transactions = 0

\* C10: when the total is 0, get_range_statistics and
\* get_unique_po_statistics report the percentage 0 for each of the seven
\* bins.
C10_ZeroTotalPercentages ==
    /\ (Ok("get_range_statistics") /\ KeptTx = {}) =>
          \A b \in 1..NumBins : ret.val[b].percent = Pct(0)
    /\ (Ok("get_unique_po_statistics") /\ KeptPo = {}) =>
          \A b \in 1..NumBins : ret.val[b].percent = Pct(0)

\* C11: count_transactions raises the validation error whenever jumlah or
\* vendor_name is absent, whatever the rows and the vendor argument (also
\* when a vendor filter would leave no row), naming the missing column and
\* listing the columns of the sheet.
C11_MissingColumnValidation ==
    (ret.fn = "count_transactions" /\ ~HasTxColumns) =>
        /\ ret.exc = "ValueError"
        /\ ret.val.why = "missing column"
        /\ ret.val.column \in {total_column, vendor_column} \ cols
        /\ ret.val.available = cols

\* No vendor was requested, the sheet has rows and lacks vendor_name:
\* count_transactions raised, naming vendor_name.
C11_Witness ==
    /\ ret.fn = "count_transactions"
    /\ vendor = None
    /\ rows # <<>>
    /\ vendor_column \notin cols
    /\ ret.exc = "ValueError"
    /\ ret.val.column = vendor_column
    /\ ret.val.available = cols

\* The sheet with a po_code column added, every cell filled.
WithPoCode == [i \in Idx |-> [rows[i] EXCEPT !.po_code = "PO1"]]

\* C12: on a sheet without po_code, count_unique_po_by_range and
\* get_po_breakdown raise the validation error for po_code, while
\* count_transactions does what it does on the same sheet with a po_code
\* column: it returns the counts of the kept rows.
C12_MissingPoCode ==
    (po_code_column \notin cols /\ HasTxColumns) =>
        /\ ret.fn \in {"count_unique_po_by_range", "get_po_breakdown"} =>
              /\ ret.exc = "ValueError"
              /\ ret.val.why = "missing column"
              /\ ret.val.column = po_code_column
        /\ ret.fn = "count_transactions" =>
              /\ ret = count_transactions(cols \cup {po_code_column}, WithPoCode, vendor)
              /\ (~VendorGiven \/ KeptTx # {}) =>
                    /\ ret.exc = "none"
                    /\ ret.val.total_transactions = Cardinality(KeptTx)

\* count_transactions returned the two rows of a sheet that has no po_code.
C12_Witness ==
    /\ po_code_column \notin cols
    /\ Ok("count_transactions")
    /\ ret.val.total_transactions = 2

\* C13: when the po_code column exists and no row has a po_code (and the
\* columns the call reads exist), count_unique_po_by_range returns 0 and
\* seven 0s and get_po_breakdown an empty table; neither raises.
C13_NoPoCodeRows ==
    (/\ po_code_column \in cols
     /\ total_column \in cols
     /\ VendorGiven => vendor_column \in cols
     /\ \A i \in Idx : rows[i].po_code = NaN) =>
        /\ ret.fn = "count_unique_po_by_range" =>
              /\ ret.exc = "none"
              /\ ret.val.total_unique_po = 0
              /\ ret.val.counts = <<0, 0, 0, 0, 0, 0, 0>>
        /\ ret.fn = "get_po_breakdown" =>
              /\ ret.exc = "none"
              /\ ret.val = <<>>

\* Two numeric, approved rows without po_code: get_po_breakdown returned an
\* empty table.
C13_Witness ==
    /\ Ok("get_po_breakdown")
    /\ po_code_column \in cols
    /\ Len(rows) = 2
    /\ \A i \in Idx : rows[i].po_code = NaN /\ i \in KeptTx
    /\ ret.val = <<>>

\* C14: total_unique_po is the number of distinct po_code values among the
\* kept rows that have a po_code.
C14_GroupingCorrectness ==
    Ok("count_unique_po_by_range") =>
        ret.val.total_unique_po = Cardinality({rows[i].po_code : i \in KeptPo})

\* Two kept rows share a po_code and were counted as one PO.
C14_Witness ==
    /\ Ok("count_unique_po_by_range")
    /\ KeptPo = {1, 2}
    /\ rows[1].po_code = rows[2].po_code
    /\ ret.val.total_unique_po = 1

\* Bin b (0..6) as the intervals are written down: [0,100000],
\* [100001,500000], ..., [10000001,50000000], above 50000000.
LiesIn(n, b) ==
    CASE b = 0 -> 0 <= n /\ n <= 100000 * Scale
      [] b = 1 -> 100001 * Scale <= n /\ n <= 500000 * Scale
      [] b = 2 -> 500001 * Scale <= n /\ n <= 1000000 * Scale
      [] b = 3 -> 1000001 * Scale <= n /\ n <= 5000000 * Scale
      [] b = 4 -> 5000001 * Scale <= n /\ n <= 10000000 * Scale
      [] b = 5 -> 10000001 * Scale <= n /\ n <= 50000000 * Scale
      [] b = 6 -> n > 50000000 * Scale

\* C15: the PO-level count of bin b is the number of po_code groups whose
\* summed jumlah lies in bin b, however the sum is split over rows.
C15_PoBinsBySum ==
    Ok("count_unique_po_by_range") =>
        \A b \in 0..6 :
            ret.val.counts[b + 1] = Cardinality({c \in Codes : LiesIn(GroupTotal(c), b)})

\* One PO of 60000 + 50000 was counted once, in bin 1.
C15_Witness ==
    /\ Ok("count_unique_po_by_range")
    /\ KeptPo = {1, 2}
    /\ rows[1].po_code = rows[2].po_code
    /\ AmountAt(1) = 60000 * Scale /\ AmountAt(2) = 50000 * Scale
    /\ ret.val.counts = <<0, 1, 0, 0, 0, 0, 0>>

\* C16: count_transactions returns the number of kept rows, the sum of
\* their jumlah and, per bin, the number of them whose jumlah lies in it.
C16_TransactionResult ==
    Ok("count_transactions") =>
        /\ ret.val.total_transactions = Cardinality(KeptTx)
        /\ ret.val.total_amount = SumAt(KeptTx)
        /\ \A b \in 0..6 :
              ret.val.counts[b + 1] = Cardinality({i \in KeptTx : LiesIn(AmountAt(i), b)})

\* Of the rows 200000/Approved and 50000/Not Yet Approved only the first
\* was counted: 1, 200000, [0,1,0,0,0,0,0].
C16_Witness ==
    /\ Ok("count_transactions")
    /\ Len(rows) = 2
    /\ VendorOK(1) /\ VendorOK(2)
    /\ AmountAt(1) = 200000 * Scale /\ rows[1].po_status_approval = "Approved"
    /\ AmountAt(2) = 50000 * Scale /\ rows[2].po_status_approval = "Not Yet Approved"
    /\ ret.val.total_transactions = 1
    /\ ret.val.total_amount = 200000 * Scale
    /\ ret.val.counts = <<0, 1, 0, 0, 0, 0, 0>>

\* C17: get_po_breakdown has exactly one row per po_code of the kept rows,
\* with the number of those rows, the sum of their jumlah and the label of
\* the bin that sum lies in.
C17_BreakdownContent ==
    Ok("get_po_breakdown") =>
        /\ Len(ret.val) = Cardinality(Codes)
        /\ {ret.val[k].po_code : k \in 1..Len(ret.val)} = Codes
        /\ \A k \in 1..Len(ret.val) :
              /\ ret.val[k].transaction_count = Cardinality(RowsOfPo(ret.val[k].po_code))
              /\ ret.val[k].total = GroupTotal(ret.val[k].po_code)
              /\ \A b \in 0..6 :
                    LiesIn(ret.val[k].total, b) => ret.val[k].label = ranges_labels[b + 1]

\* The breakdown of one PO of two rows, 60000 + 50000.
C17_Witness ==
    /\ Ok("get_po_breakdown")
    /\ Len(ret.val) = 1
    /\ ret.val[1].transaction_count = 2
    /\ ret.val[1].total = 110000 * Scale
    /\ ret.val[1].label = "100 Ribu - 500 Ribu"

\* C18: in the table of get_po_breakdown the total never increases from
\* one row to the next.
C18_BreakdownDescending ==
    Ok("get_po_breakdown") =>
        \A k \in 1..(Len(ret.val) - 1) : ret.val[k].total >= ret.val[k + 1].total

\* PO2 is worth more than PO1 and is listed first.
C18_Witness ==
    /\ Ok("get_po_breakdown")
    /\ Len(ret.val) = 2
    /\ ret.val[1].po_code = "PO2"
    /\ ret.val[1].total > ret.val[2].total

\* The first kept row that carries the po_code c.
FirstSeen(c) == CHOOSE i \in RowsOfPo(c) : \A j \in RowsOfPo(c) : i <= j

\* C19: with a sort that keeps equal values in order, two PO groups of
\* equal total are listed by get_po_breakdown in the order in which their
\* po_codes are first seen in the input rows.
C19_TiesFirstSeen ==
    (Ok("get_po_breakdown") /\ tie_order = StableOrder) =>
        \A j, k \in 1..Len(ret.val) :
            (j < k /\ ret.val[j].total = ret.val[k].total) =>
                FirstSeen(ret.val[j].po_code) < FirstSeen(ret.val[k].po_code)

\* C19 (amended): with a sort that keeps equal values in order, two PO
\* groups of equal total are listed in ascending po_code order, the order
\* of the grouped frame, whichever po_code the input rows show first.
C19_TiesKeyOrder ==
    (Ok("get_po_breakdown") /\ tie_order = StableOrder) =>
        \A j, k \in 1..Len(ret.val) :
            (j < k /\ ret.val[j].total = ret.val[k].total) =>
                KeyPos(ret.val[j].po_code) < KeyPos(ret.val[k].po_code)

\* The input shows PO2 before PO1, both of the same value; the table lists
\* PO1 first.
C19_Witness ==
    /\ Ok("get_po_breakdown")
    /\ tie_order = StableOrder
    /\ KeptPo = {1, 2}
    /\ rows[1].po_code = "PO2" /\ rows[2].po_code = "PO1"
    /\ AmountAt(1) = AmountAt(2)
    /\ ret.val[1].po_code = "PO1" /\ ret.val[2].po_code = "PO2"

\* The number of breakdown rows that carry the label of bin b.
Labelled(b) == Cardinality({k \in 1..Len(ret.val) : ret.val[k].label = ranges_labels[b + 1]})

\* C20: for each bin, the number of get_po_breakdown rows labelled with it
\* equals the count count_unique_po_by_range returns for it.
C20_ConsumersAgree ==
    (Ok("get_po_breakdown") /\ count_unique_po_by_range(cols, rows, vendor).exc = "none") =>
        \A b \in 0..6 :
            Labelled(b) = count_unique_po_by_range(cols, rows, vendor).val.counts[b + 1]

\* The seven percentages of a statistics table, in hundredths of a percent.
Percents == [b \in 1..NumBins |-> ret.val[b].percent.n]

\* C21: whenever the total is positive, the seven percentages of
\* get_range_statistics and of get_unique_po_statistics are numbers that sum
\* to 100.00, at most 0.04 away.
C21_PercentageClosure ==
    /\ (Ok("get_range_statistics") /\ KeptTx # {}) =>
          /\ \A b \in 1..NumBins : ret.val[b].percent.t = "num"
          /\ SumSeq(Percents) >= 10000 - 4 /\ SumSeq(Percents) <= 10000 + 4
    /\ (Ok("get_unique_po_statistics") /\ Codes # {}) =>
          /\ \A b \in 1..NumBins : ret.val[b].percent.t = "num"
          /\ SumSeq(Percents) >= 10000 - 4 /\ SumSeq(Percents) <= 10000 + 4
\* In a statistics sheet of a report, the TOTAL row agrees with the seven
\* rows above it: its count is their sum, its percentage their sum up to
\* 0.04.
TotalRowAgrees(sheet) ==
    /\ sheet.total.count = SumSeq([b \in 1..NumBins |-> sheet.rows[b].count])
    /\ \A b \in 1..NumBins : sheet.rows[b].percent.t = "num"
    /\ LET sum == SumSeq([b \in 1..NumBins |-> sheet.rows[b].percent.n])
       IN sum >= sheet.total.percent.n - 4 /\ sum <= sheet.total.percent.n + 4

\* C22: in every report the dashboard builds (workbook sheets 'Statistik
\* Detail' and 'PO Unik', PDF statistics table) the TOTAL row agrees with
\* the seven bin rows above it.
C22_TotalRowConsistent ==
    \A k \in 1..Len(page.reports) :
        page.reports[k].exc = "none" =>
            /\ TotalRowAgrees(page.reports[k].detail.v)
            /\ page.reports[k].po.some = "yes" => TotalRowAgrees(page.reports[k].po.v)
\* What an aggregator gives on the dataset and the vendor alone.
ResultOn(fn) ==
    CASE fn = "count_transactions" -> count_transactions(cols, rows, vendor)
      [] fn = "get_range_statistics" -> get_range_statistics(cols, rows, vendor)
      [] fn = "count_unique_po_by_range" -> count_unique_po_by_range(cols, rows, vendor)
      [] fn = "get_unique_po_statistics" -> get_unique_po_statistics(cols, rows, vendor)
      [] fn = "get_po_breakdown" -> get_po_breakdown(cols, rows, vendor)
      [] fn = "get_transaction_dataframe" -> get_transaction_dataframe(cols, rows, vendor)

C24_FilterMonotone ==
    Ok("count_transactions") =>
        /\ count_transactions(cols, rows, None).exc = "none"
        /\ ret.val.total_transactions <=
              count_transactions(cols, rows, None).val.total_transactions

\* Two kept rows of two vendors: one is counted for vendor "X", two without
\* a filter.
C24_Witness ==
    /\ Ok("count_transactions")
    /\ vendor = "X"
    /\ ret.val.total_transactions = 1
    /\ count_transactions(cols, rows, None).val.total_transactions = 2
\* Positions of a render after the PO block, and after the PO tab.
AfterPoBlock == {"metrics", "tab1", "tab23", "tab4", "tab5", "done"}

AfterPoTab == {"tab5", "done"}

PoFunctions == {"count_unique_po_by_range", "get_unique_po_statistics", "get_po_breakdown"}

\* C25: when the transaction aggregation returns and a PO-level call raises
\* on the dataset, then after the PO block the three PO results are None
\* together, the render has not failed, the transaction results on the page
\* are those of count_transactions and get_range_statistics, no PO view is
\* shown (the PO tab shows its message), no report has a PO sheet, every
\* report that is built carries the transaction statistics, and the
\* workbook of the first tab is the one built from the transaction results
\* alone; at the end of the render the metrics and the four other tabs are
\* shown and all six reports were attempted.  In no render are the PO
\* results a mix of None and values.
C25_GracefulDegradation ==
    /\ page.pc \in AfterPoBlock =>
          \/ \A f \in {page.po_counts, page.po_stats_df, page.po_breakdown_df} : f.some = "none"
          \/ \A f \in {page.po_counts, page.po_stats_df, page.po_breakdown_df} : f.some = "yes"
    /\ (/\ count_transactions(cols, rows, vendor).exc = "none"
        /\ \E fn \in PoFunctions : ResultOn(fn).exc # "none") =>
          /\ page.pc # "failed"
          /\ page.pc \in AfterPoBlock =>
                /\ \A f \in {page.po_counts, page.po_stats_df, page.po_breakdown_df} : f.some = "none"
                /\ "po_warning" \in page.shown
                /\ page.counts.v = count_transactions(cols, rows, vendor).val
                /\ page.stats_df.v = get_range_statistics(cols, rows, vendor).val
                /\ {"po_view", "po_breakdown_view"} \cap page.shown = {}
                /\ \A k \in 1..Len(page.reports) :
                      /\ page.reports[k].po.some = "none"
                      /\ page.reports[k].breakdown.some = "none"
                      /\ page.reports[k].exc = "none" =>
                            page.reports[k].detail.v.rows = page.stats_df.v
                      /\ (KeptTx # {} \/ page.reports[k].kind = "pdf") => page.reports[k].exc = "none"
                /\ Len(page.reports) >= 3 => page.reports[1] = page.reports[3]
          /\ page.pc \in AfterPoTab => "po_error" \in page.shown
          /\ page.pc = "done" =>
                /\ {"metrics", "tab_distribusi", "tab_statistik", "tab_detail", "tab_data"}
                       \subseteq page.shown
                /\ Len(page.reports) = 6

\* A render of a sheet without po_code ran to its end: the first PO call
\* raised, the other two were not made, two transactions are on the page
\* and in the workbook, which has no PO sheet.
C25_Witness ==
    /\ po_code_column \notin cols
    /\ page.pc = "done"
    /\ page.calls = <<"count_transactions", "get_range_statistics",
                      "count_unique_po_by_range", "get_transaction_dataframe",
                      "get_transaction_dataframe">>
    /\ page.po_counts.some = "none" /\ page.po_stats_df.some = "none"
    /\ page.po_breakdown_df.some = "none"
    /\ page.counts.v.total_transactions = 2
    /\ "po_error" \in page.shown
    /\ page.reports[1].exc = "none"
    /\ page.reports[1].detail.v.total.count = 2
    /\ page.reports[1].po.some = "none"
NegativeRows == {i \in KeptTx : AmountAt(i) < 0}

NegativeCodes == {c \in Codes : GroupTotal(c) < 0}

\* C26: a kept row, or a PO group sum, that is negative is counted in the
\* seventh bin: count_above_50M is the number of amounts above 50000000 or
\* below 0.
C26_NegativeInAbove ==
    /\ Ok("count_transactions") =>
          ret.val.counts[7] =
              Cardinality({i \in KeptTx : AmountAt(i) > Above * Scale \/ AmountAt(i) < 0})
    /\ Ok("count_unique_po_by_range") =>
          ret.val.counts[7] =
              Cardinality({c \in Codes : GroupTotal(c) > Above * Scale \/ GroupTotal(c) < 0})

\* C26 (amended): a negative amount is counted in the total (and the sum)
\* and in none of the seven bins, the seventh included, by
\* count_transactions and count_unique_po_by_range; get_po_breakdown labels
\* a PO of negative sum "0 - 100 Ribu".
C26_NegativeInNoBin ==
    /\ Ok("count_transactions") =>
          /\ ret.val.total_transactions = Cardinality(KeptTx)
          /\ ret.val.total_amount = SumAt(KeptTx)
          /\ ret.val.counts[7] = Cardinality({i \in KeptTx : AmountAt(i) > Above * Scale})
          /\ SumSeq(ret.val.counts) <= Cardinality(KeptTx \ NegativeRows)
    /\ Ok("count_unique_po_by_range") =>
          /\ ret.val.total_unique_po = Cardinality(Codes)
          /\ ret.val.counts[7] = Cardinality({c \in Codes : GroupTotal(c) > Above * Scale})
          /\ SumSeq(ret.val.counts) <= Cardinality(Codes \ NegativeCodes)
    /\ Ok("get_po_breakdown") =>
          \A k \in 1..Len(ret.val) :
              ret.val[k].total < 0 => ret.val[k].label = "0 - 100 Ribu"

\* A negative row and a row above 50000000 were counted: total 2, one in
\* the seventh bin, none elsewhere.
C26_Witness ==
    /\ Ok("count_transactions")
    /\ KeptTx = {1, 2}
    /\ AmountAt(1) < 0
    /\ AmountAt(2) > Above * Scale
    /\ ret.val.total_transactions = 2
    /\ ret.val.counts = <<0, 0, 0, 0, 0, 0, 1>>
\* The dataset on which a render cannot aggregate transactions.
TransactionsFail ==
    \/ vendor_column \notin cols
    \/ count_transactions(cols, rows, vendor).exc # "none"
    \/ get_range_statistics(cols, rows, vendor).exc # "none"

\* C27: in a render count_transactions is the first call and
\* get_range_statistics the second, before any PO-level call; when
\* vendor_name is missing or the transaction aggregation raises, no PO-level
\* function and no get_transaction_dataframe is called, nothing but the
\* sidebar and the error message is shown, no report is built, and the
\* render stops there (without vendor_name, before any call).
C27_FailureOrdering ==
    /\ Len(page.calls) >= 1 => page.calls[1] = "count_transactions"
    /\ Len(page.calls) >= 2 => page.calls[2] = "get_range_statistics"
    /\ TransactionsFail =>
          /\ \A k \in 1..Len(page.calls) :
                page.calls[k] \in {"count_transactions", "get_range_statistics"}
          /\ page.shown \subseteq {"sidebar", "error"}
          /\ page.reports = <<>>
          /\ page.pc \in {"upload", "count", "stats", "returned", "failed"}
          /\ page.pc \in {"returned", "failed"} => "error" \in page.shown
          /\ vendor_column \notin cols => page.calls = <<>> /\ page.pc \in {"upload", "returned"}
          /\ page.pc = "stats" => get_range_statistics(cols, rows, vendor).exc # "none"

\* The selected vendor has only unapproved rows: count_transactions raised
\* the empty-result error, the render stopped with the error shown.
C27_Witness ==
    /\ vendor = "X"
    /\ page.pc = "failed"
    /\ page.calls = <<"count_transactions">>
    /\ ret.exc = "ValueError"
    /\ ret.val.why = "empty vendor"
    /\ page.shown = {"sidebar", "error"}
    /\ page.reports = <<>>
\* C28: whenever count_transactions returns on the dataset and the vendor,
\* get_transaction_dataframe returns as many rows as its total_transactions,
\* with jumlah values that sum to its total_amount: the rows KeptTx.
C28_RowSetAgrees ==
    (ret.fn = "get_transaction_dataframe" /\ count_transactions(cols, rows, vendor).exc = "none") =>
        /\ ret.exc = "none"
        /\ Len(ret.val) = count_transactions(cols, rows, vendor).val.total_transactions
        /\ SumJumlah(ret.val) = count_transactions(cols, rows, vendor).val.total_amount
        /\ \A k \in 1..Len(ret.val) : ret.val[k].jumlah.t = "num"
        /\ Len(ret.val) = Cardinality(KeptTx)

\* Of two rows, one of them not numeric, get_transaction_dataframe returned
\* the one row that count_transactions counts for the vendor.
C28_Witness ==
    /\ Ok("get_transaction_dataframe")
    /\ VendorGiven
    /\ Len(rows) = 2
    /\ \E i \in Idx : ~NumericAt(i)
    /\ Len(ret.val) = 1
    /\ count_transactions(cols, rows, vendor).val.total_transactions = 1
    /\ SumJumlah(ret.val) = count_transactions(cols, rows, vendor).val.total_amount
\* C29: the breakdown has total_unique_po rows; its transaction counts sum
\* to the number of kept rows that have a po_code and its totals to the sum
\* of their jumlah; and total_unique_po is at most the total_transactions of
\* count_transactions whenever that returns.
C29_GroupingConserves ==
    /\ Ok("get_po_breakdown") =>
          /\ count_unique_po_by_range(cols, rows, vendor).exc = "none"
          /\ Len(ret.val) = count_unique_po_by_range(cols, rows, vendor).val.total_unique_po
          /\ SumSeq(BreakdownCounts) = Cardinality(KeptPo)
          /\ SumSeq(BreakdownTotals) = SumAt(KeptPo)
    /\ (Ok("count_unique_po_by_range") /\ count_transactions(cols, rows, vendor).exc = "none") =>
          ret.val.total_unique_po <=
              count_transactions(cols, rows, vendor).val.total_transactions

\* Two kept rows of one PO: one breakdown row, of 2 transactions and the sum
\* 60000 + 50000.
C29_Witness ==
    /\ Ok("get_po_breakdown")
    /\ KeptPo = {1, 2}
    /\ AmountAt(1) # AmountAt(2)
    /\ Len(ret.val) = 1
    /\ ret.val[1].transaction_count = 2
    /\ ret.val[1].total = AmountAt(1) + AmountAt(2)
    /\ count_unique_po_by_range(cols, rows, vendor).val.total_unique_po = 1
\* What an aggregator gives on the dataset without a vendor filter.
ResultWithoutVendor(fn) ==
    CASE fn = "count_transactions" -> count_transactions(cols, rows, None)
      [] fn = "get_range_statistics" -> get_range_statistics(cols, rows, None)
      [] fn = "count_unique_po_by_range" -> count_unique_po_by_range(cols, rows, None)
      [] fn = "get_unique_po_statistics" -> get_unique_po_statistics(cols, rows, None)
      [] fn = "get_po_breakdown" -> get_po_breakdown(cols, rows, None)
      [] fn = "get_transaction_dataframe" -> get_transaction_dataframe(cols, rows, None)

\* C30: with vendor = "" every aggregator gives what it gives with
\* vendor = None; rows are kept whatever their vendor_name, and the
\* empty-result error is never raised.
C30_EmptyStringVendor ==
    (vendor = "" /\ ret.fn # "none") =>
        /\ ret = ResultWithoutVendor(ret.fn)
        /\ ret.exc # "none" => ret.val.why # "empty vendor"
        /\ Ok("count_transactions") =>
              ret.val.total_transactions =
                  Cardinality({i \in Idx : NumericAt(i) /\ StatusOK(i)})
        /\ Ok("get_transaction_dataframe") =>
              Len(ret.val) = Cardinality({i \in Idx : NumericAt(i) /\ StatusOK(i)})

\* No row has an empty vendor_name, the vendor argument is "", and
\* count_transactions counted both rows.
C30_Witness ==
    /\ vendor = ""
    /\ Ok("count_transactions")
    /\ Len(rows) = 2
    /\ \A i \in Idx : rows[i].vendor_name \in {"X", "Y"}
    /\ ret.val.total_transactions = 2
====
